---- MODULE Spec2Model ----
(***************************************************************************)
(* Model of dask/array/chunk_types.py: the module-level list               *)
(* _HANDLED_CHUNK_TYPES, register_chunk_type, the four guarded imports     *)
(* run at module import, and the predicates is_valid_chunk_type and        *)
(* is_valid_array_chunk.                                                   *)
(*                                                                         *)
(* Python values are strings.  A call's outcome is one of "True", "False"  *)
(* (the returned bool), "None" (register_chunk_type returns nothing) or    *)
(* the name of the exception that propagates out of the call.              *)
(***************************************************************************)
EXTENDS Naturals, Sequences, FiniteSets

\* ------------------------------------------------------------------ bounds
\* Number of register_chunk_type calls made after module import.
MaxReg == 2

\* ------------------------------------------------------- the value universe
\* Classes that can be passed around as values.
Types ==
    {"ndarray", "MaskedArray", "cupy_ndarray", "cupyx_spmatrix",
     "SparseArray", "scipy_spmatrix", "list", "int", "Flagged", "SubFlagged"}

\* Values that are not classes: 42, [], None, np.ones(1), np.arange(2),
\* Flagged(...), SubFlagged(...).
Instances ==
    {"v42", "vList", "vNone", "vOnes1", "vArange2", "vFlagged", "vSubFlagged"}

Values == Types \cup Instances

\* Values passed to register_chunk_type after import: two classes, a scalar
\* and an array instance (the function takes whatever it is given).
RegisterArgs == {"Flagged", "list", "v42", "vArange2"}

\* Arguments of the reader thread's predicate calls: a default class, the
\* classes and values the writer registers, their subclass and instances,
\* and None.
ReaderArgs ==
    {"MaskedArray", "Flagged", "SubFlagged", "list",
     "v42", "vArange2", "vFlagged", "vSubFlagged", "vNone"}

\* Direct base classes (object is left out: it is never registered).
Bases ==
    [t \in Types \cup {"type", "NoneType"} |->
        CASE t = "MaskedArray" -> {"ndarray"}
          [] t = "SubFlagged"  -> {"Flagged"}
          [] OTHER             -> {}]

\* The class and all its ancestors.
RECURSIVE Mro(_)
Mro(t) == {t} \cup UNION {Mro(b) : b \in Bases[t]}

\* type(v)
TypeOf(v) ==
    CASE v \in Types     -> "type"
      [] v = "v42"       -> "int"
      [] v = "vList"     -> "list"
      [] v = "vNone"     -> "NoneType"
      [] v = "vOnes1"    -> "ndarray"
      [] v = "vArange2"  -> "ndarray"
      [] v = "vFlagged"  -> "Flagged"
      [] v = "vSubFlagged" -> "SubFlagged"

\* Values for which bool(a == b) raises ValueError: == is elementwise on an
\* ndarray of more than one element; any object whose __eq__ raises behaves
\* the same way.
ElementwiseEq == {"vArange2"}

\* bool(item == x) as list.__contains__ evaluates it: identity first, then
\* __eq__ (either operand's).  No two distinct values of the universe are
\* equal.
Eq(item, x) ==
    IF item = x THEN "True"
    ELSE IF item \in ElementwiseEq \/ x \in ElementwiseEq THEN "ValueError"
    ELSE "False"

\* x in lst, scanning from index i.
RECURSIVE ContainsFrom(_, _, _)
ContainsFrom(lst, x, i) ==
    IF i > Len(lst) THEN "False"
    ELSE LET e == Eq(lst[i], x)
         IN  IF e = "False" THEN ContainsFrom(lst, x, i + 1) ELSE e

Contains(lst, x) == ContainsFrom(lst, x, 1)

\* issubclass(x, tup), scanning the tuple from index i: the first entry
\* that matches or raises decides.
RECURSIVE IsSubclassFrom(_, _, _)
IsSubclassFrom(x, tup, i) ==
    IF i > Len(tup) THEN "False"
    ELSE IF x \notin Types \/ tup[i] \notin Types THEN "TypeError"
    ELSE IF tup[i] \in Mro(x) THEN "True"
    ELSE IsSubclassFrom(x, tup, i + 1)

IsSubclass(x, tup) == IsSubclassFrom(x, tup, 1)

\* isinstance(v, tup), scanning the tuple from index i.
RECURSIVE IsInstanceFrom(_, _, _)
IsInstanceFrom(v, tup, i) ==
    IF i > Len(tup) THEN "False"
    ELSE IF tup[i] \notin Types THEN "TypeError"
    ELSE IF tup[i] \in Mro(TypeOf(v)) THEN "True"
    ELSE IsInstanceFrom(v, tup, i + 1)

IsInstance(v, tup) == IsInstanceFrom(v, tup, 1)

\* tuple(_HANDLED_CHUNK_TYPES): a copy of the list as it is now.
TupleOf(lst) == lst

\* -------------------------------------------------------------- the module
VARIABLES
    HANDLED_CHUNK_TYPES,  \* the module-level list
    pc,                   \* position of the module's top-level code
    calls,                \* register_chunk_type calls made after import
    last,                 \* the last completed operation: [op, arg, result]
    rpc,                  \* reader thread: "idle", "subclass_test", "returned"
    rop,                  \* reader thread: the predicate it called
    rarg,                 \* reader thread: the argument of that call
    rlen1,                \* list length when that call first read the list
    rlen2,                \* list length when that call last read the list
    rresult               \* reader thread: outcome of the returned call

vars ==
    <<HANDLED_CHUNK_TYPES, pc, calls, last, rpc, rop, rarg, rlen1, rlen2, rresult>>

readerVars == <<rpc, rop, rarg, rlen1, rlen2, rresult>>

\* What an import statement can do: bind the package, raise ImportError
\* (ModuleNotFoundError included), or raise anything else.
ImportOutcomes == {"ok", "ImportError", "OtherError"}

\* The list literal of line 6.
DefaultChunkTypes == <<"ndarray", "MaskedArray">>

\* register_chunk_type with list.insert(0, type) in place of list.append.
register_chunk_type_prepend(lst, type) == <<type>> \o lst

\* The body of register_chunk_type: list.append.
register_chunk_type(lst, type) == Append(lst, type)

\* The left operand of the "or": type in _HANDLED_CHUNK_TYPES.  A ValueError
\* raised by a comparison is not a TypeError and leaves the function.
MembershipTest(lst, type) == Contains(lst, type)

\* The right operand: issubclass(type, tuple(_HANDLED_CHUNK_TYPES)), with
\* the handler that turns TypeError into False.
SubclassTest(lst, type) ==
    LET sub == IsSubclass(type, TupleOf(lst))
    IN  IF sub = "TypeError" THEN "False" ELSE sub

\* is_valid_chunk_type(type) evaluated on the list lst.
is_valid_chunk_type(lst, type) ==
    LET member == MembershipTest(lst, type)
    IN  IF member = "False" THEN SubclassTest(lst, type) ELSE member

\* is_valid_array_chunk(array) evaluated on the list lst.
is_valid_array_chunk(lst, array) ==
    IF array = "vNone" THEN "True" ELSE IsInstance(array, TupleOf(lst))

Init ==
    /\ HANDLED_CHUNK_TYPES = DefaultChunkTypes
    /\ pc = "import_cupy"
    /\ calls = 0
    /\ last = [op |-> "init", arg |-> "-", result |-> "-"]
    /\ rpc = "idle"
    /\ rop = "-"
    /\ rarg = "-"
    /\ rlen1 = 0
    /\ rlen2 = 0
    /\ rresult = "-"

\* One try/import/register/except ImportError block.
GuardedImport(here, next, backendType) ==
    /\ pc = here
    /\ \E outcome \in ImportOutcomes :
          /\ last' = [op |-> "import", arg |-> backendType, result |-> outcome]
          /\ CASE outcome = "ok" ->
                    /\ HANDLED_CHUNK_TYPES' =
                          register_chunk_type(HANDLED_CHUNK_TYPES, backendType)
                    /\ pc' = next
               [] outcome = "ImportError" ->
                    /\ HANDLED_CHUNK_TYPES' = HANDLED_CHUNK_TYPES
                    /\ pc' = next
               [] OTHER ->
                    /\ HANDLED_CHUNK_TYPES' = HANDLED_CHUNK_TYPES
                    /\ pc' = "failed"
    /\ UNCHANGED <<calls, readerVars>>

import_cupy == GuardedImport("import_cupy", "import_cupyx", "cupy_ndarray")

import_cupyx == GuardedImport("import_cupyx", "import_sparse", "cupyx_spmatrix")

import_sparse == GuardedImport("import_sparse", "import_scipy", "SparseArray")

import_scipy == GuardedImport("import_scipy", "ready", "scipy_spmatrix")

\* A caller registers a value.
CallRegister ==
    /\ pc = "ready"
    /\ calls < MaxReg
    /\ \E t \in RegisterArgs :
          /\ HANDLED_CHUNK_TYPES' = register_chunk_type(HANDLED_CHUNK_TYPES, t)
          /\ last' = [op |-> "register_chunk_type", arg |-> t, result |-> "None"]
    /\ calls' = calls + 1
    /\ UNCHANGED <<pc, readerVars>>

\* A caller queries the type predicate.
CallIsValidChunkType ==
    /\ pc = "ready"
    /\ \E x \in Values :
          last' = [op |-> "is_valid_chunk_type", arg |-> x,
                   result |-> is_valid_chunk_type(HANDLED_CHUNK_TYPES, x)]
    /\ UNCHANGED <<HANDLED_CHUNK_TYPES, pc, calls, readerVars>>

\* A caller queries the value predicate.
CallIsValidArrayChunk ==
    /\ pc = "ready"
    /\ \E v \in Values :
          last' = [op |-> "is_valid_array_chunk", arg |-> v,
                   result |-> is_valid_array_chunk(HANDLED_CHUNK_TYPES, v)]
    /\ UNCHANGED <<HANDLED_CHUNK_TYPES, pc, calls, readerVars>>

Next ==
    \/ import_cupy
    \/ import_cupyx
    \/ import_sparse
    \/ import_scipy
    \/ CallRegister
    \/ CallIsValidChunkType
    \/ CallIsValidArrayChunk

Spec == Init /\ [][Next]_vars

\* ------------------------------------------- a reader thread and a writer
\* A second thread calls the predicates while the first one registers.  The
\* interpreter switches threads between bytecodes, so each read of the
\* global list (list.__contains__, tuple(list)) and list.append is one step,
\* and a registration can fall between the two reads of is_valid_chunk_type.

\* The reader enters is_valid_chunk_type and evaluates the membership test;
\* "or" returns at once unless the test is False.
ReaderMembershipTest ==
    /\ pc = "ready"
    /\ rpc # "subclass_test"
    /\ \E x \in ReaderArgs :
          LET member == MembershipTest(HANDLED_CHUNK_TYPES, x)
          IN  /\ rop' = "is_valid_chunk_type"
              /\ rarg' = x
              /\ rlen1' = Len(HANDLED_CHUNK_TYPES)
              /\ rlen2' = Len(HANDLED_CHUNK_TYPES)
              /\ IF member = "False"
                    THEN rpc' = "subclass_test" /\ rresult' = "-"
                    ELSE rpc' = "returned" /\ rresult' = member
    /\ UNCHANGED <<HANDLED_CHUNK_TYPES, pc, calls, last>>

\* ReaderSubclassTest without the "except TypeError" handler.
ReaderSubclassTestUncaught ==
    /\ rpc = "subclass_test"
    /\ rresult' = IsSubclass(rarg, TupleOf(HANDLED_CHUNK_TYPES))
    /\ rlen2' = Len(HANDLED_CHUNK_TYPES)
    /\ rpc' = "returned"
    /\ UNCHANGED <<HANDLED_CHUNK_TYPES, pc, calls, last, rop, rarg, rlen1>>

\* The reader reads the list again for the subclass test and returns.
ReaderSubclassTest ==
    /\ rpc = "subclass_test"
    /\ rresult' = SubclassTest(HANDLED_CHUNK_TYPES, rarg)
    /\ rlen2' = Len(HANDLED_CHUNK_TYPES)
    /\ rpc' = "returned"
    /\ UNCHANGED <<HANDLED_CHUNK_TYPES, pc, calls, last, rop, rarg, rlen1>>

\* The reader calls is_valid_array_chunk, which reads the list once.
ReaderIsValidArrayChunk ==
    /\ pc = "ready"
    /\ rpc # "subclass_test"
    /\ \E v \in ReaderArgs :
          /\ rarg' = v
          /\ rresult' = is_valid_array_chunk(HANDLED_CHUNK_TYPES, v)
    /\ rop' = "is_valid_array_chunk"
    /\ rlen1' = Len(HANDLED_CHUNK_TYPES)
    /\ rlen2' = Len(HANDLED_CHUNK_TYPES)
    /\ rpc' = "returned"
    /\ UNCHANGED <<HANDLED_CHUNK_TYPES, pc, calls, last>>

NextThreads ==
    \/ import_cupy
    \/ import_cupyx
    \/ import_sparse
    \/ import_scipy
    \/ CallRegister
    \/ ReaderMembershipTest
    \/ ReaderSubclassTest
    \/ ReaderIsValidArrayChunk

SpecThreads == Init /\ [][NextThreads]_vars

\* ------------------------------------------------------------- properties
Registry == HANDLED_CHUNK_TYPES

Returned == {"True", "False"}

\* Indices of the entries appended by register_chunk_type calls after import.
UserEntries == (Len(Registry) - calls + 1) .. Len(Registry)

\* The entries that are classes.
RegisteredTypes == {Registry[i] : i \in {j \in 1..Len(Registry) : Registry[j] \in Types}}

AllTypes(lst) == \A i \in 1..Len(lst) : lst[i] \in Types

Range(s) == {s[i] : i \in 1..Len(s)}

IsPrefix(s, t) == Len(s) <= Len(t) /\ SubSeq(t, 1, Len(s)) = s

SeqsUpTo(S, n) == UNION {[1..k -> S] : k \in 0..n}

ImportPcs == {"import_cupy", "import_cupyx", "import_sparse", "import_scipy"}

AfterImport(p) ==
    CASE p = "import_cupy"   -> "import_cupyx"
      [] p = "import_cupyx"  -> "import_sparse"
      [] p = "import_sparse" -> "import_scipy"
      [] p = "import_scipy"  -> "ready"

\* X is a registered class or a subclass of one.
TypeCovered(X) == \E T \in RegisteredTypes : T \in Mro(X)

\* C1: in every registry state and for every class X, is_valid_chunk_type(X)
\* is true exactly when X is a registered class or a subclass of one.
C1_SubtypeClosure ==
    pc = "ready" =>
        \A X \in Types :
            (is_valid_chunk_type(Registry, X) = "True") <=> TypeCovered(X)

\* C2: every value that register_chunk_type has been called with is accepted
\* by is_valid_chunk_type from then on.
C2_RegisteredStaysValid ==
    pc = "ready" =>
        \A i \in UserEntries : is_valid_chunk_type(Registry, Registry[i]) = "True"

\* C3: is_valid_array_chunk(v) returns true exactly when v is None or type(v)
\* is a registered class or a subclass of one, and false for every other v.
C3_ArrayChunkIff ==
    pc = "ready" =>
        \A v \in Values :
            /\ is_valid_array_chunk(Registry, v) \in Returned
            /\ (is_valid_array_chunk(Registry, v) = "True")
                  <=> (v = "vNone" \/ TypeCovered(TypeOf(v)))

\* C4: is_valid_chunk_type never raises, and returns false for every input
\* that is not a class.
C4_TypePredicateTotal ==
    pc = "ready" =>
        \A x \in Values :
            /\ is_valid_chunk_type(Registry, x) \in Returned
            /\ x \notin Types => is_valid_chunk_type(Registry, x) = "False"

\* C5: neither predicate ever raises, whatever has been registered.
C5_PredicatesNeverRaise ==
    pc = "ready" =>
        \A x \in Values :
            /\ is_valid_array_chunk(Registry, x) \in Returned
            /\ is_valid_chunk_type(Registry, x) \in Returned

\* C6: the two default classes are always in the list, every step keeps the
\* previous list as a prefix of the new one, and a predicate call leaves the
\* list as it was.
C6_GrowOnly ==
    /\ [](/\ Len(Registry) >= 2
          /\ Registry[1] = "ndarray"
          /\ Registry[2] = "MaskedArray")
    /\ [][/\ IsPrefix(Registry, Registry')
          /\ (last' # last /\ last'.op \in {"is_valid_chunk_type", "is_valid_array_chunk"})
                => Registry' = Registry]_vars

\* A predicate has been called after the list grew past its import-time
\* contents.
C6_Witness ==
    /\ calls = MaxReg
    /\ Len(Registry) > 2 + calls
    /\ last.op = "is_valid_array_chunk"

\* C7: an import that fails for any reason skips that backend only: the
\* list is unchanged, the next import is attempted, and a successful import
\* registers its class.
C7_ImportIsolation ==
    [][(pc \in ImportPcs /\ pc' # pc) =>
          /\ pc' = AfterImport(pc)
          /\ IF last'.result = "ok"
                THEN Registry' = Append(Registry, last'.arg)
                ELSE Registry' = Registry]_vars

\* C8: registering a value x that is not a class leaves is_valid_chunk_type(x)
\* false and changes the result of neither predicate on any other input.
C8_MalformedNeverMatched ==
    [][(calls' = calls + 1 /\ last'.arg \notin Types) =>
          /\ is_valid_chunk_type(Registry', last'.arg) = "False"
          /\ \A y \in Values \ {last'.arg} :
                /\ is_valid_chunk_type(Registry', y) = is_valid_chunk_type(Registry, y)
                /\ is_valid_array_chunk(Registry', y) = is_valid_array_chunk(Registry, y)]_vars

\* C9: two sequences of registrations of the same set of values, in any order
\* and with any repetitions, give the same predicate results on every input.
C9_OrderIndependent ==
    pc = "ready" =>
        LET base == SubSeq(Registry, 1, Len(Registry) - calls)
            user == SubSeq(Registry, Len(Registry) - calls + 1, Len(Registry))
        IN  \A s \in SeqsUpTo(Range(user), MaxReg) :
                Range(s) = Range(user) =>
                    \A x \in Values :
                        /\ is_valid_chunk_type(base \o s, x)
                              = is_valid_chunk_type(Registry, x)
                        /\ is_valid_array_chunk(base \o s, x)
                              = is_valid_array_chunk(Registry, x)

\* The outcome of the reader's predicate on the first k entries of the list.
OnSnapshot(k) ==
    IF rop = "is_valid_chunk_type"
        THEN is_valid_chunk_type(SubSeq(Registry, 1, k), rarg)
        ELSE is_valid_array_chunk(SubSeq(Registry, 1, k), rarg)

\* C10: a predicate call that overlaps registrations returns what it would
\* return on one of the lists that existed between its first and its last
\* read: with one registration in between, the list before it or after it.
C10_SnapshotResult ==
    rpc = "returned" => \E k \in rlen1..rlen2 : rresult = OnSnapshot(k)

\* is_valid_chunk_type returned after a registration fell between its two
\* reads, and the two snapshots disagree.
C10_Witness ==
    /\ rpc = "returned"
    /\ rop = "is_valid_chunk_type"
    /\ rlen2 = rlen1 + 1
    /\ OnSnapshot(rlen1) # OnSnapshot(rlen2)

\* --------------------------------------- the same, for well-formed lists
\* What the predicates do while every entry of the list is a class, the
\* case the docstring of register_chunk_type describes ("type : type").

\* With classes only in the list, is_valid_chunk_type(X) is true exactly for
\* the registered classes and their subclasses, and is_valid_array_chunk(v)
\* exactly for None and the instances of those classes; no call on a value
\* with an ordinary == raises.
TypedRegistryPredicates ==
    (pc = "ready" /\ AllTypes(Registry)) =>
        /\ \A X \in Types :
              (is_valid_chunk_type(Registry, X) = "True") <=> TypeCovered(X)
        /\ \A x \in Values \ ElementwiseEq :
              /\ is_valid_chunk_type(Registry, x) \in Returned
              /\ x \notin Types => is_valid_chunk_type(Registry, x) = "False"
        /\ \A v \in Values :
              /\ is_valid_array_chunk(Registry, v) \in Returned
              /\ (is_valid_array_chunk(Registry, v) = "True")
                    <=> (v = "vNone" \/ TypeCovered(TypeOf(v)))

\* With no entry whose == raises, every registered value stays accepted by
\* is_valid_chunk_type.
PlainEqRegisteredStaysValid ==
    (pc = "ready" /\ Range(Registry) \cap ElementwiseEq = {}) =>
        \A i \in UserEntries : is_valid_chunk_type(Registry, Registry[i]) = "True"

\* With classes only in the list, the order and the repetitions of the
\* registrations do not show in any predicate result.
TypedRegistryOrderIndependent ==
    (pc = "ready" /\ AllTypes(Registry)) =>
        LET base == SubSeq(Registry, 1, Len(Registry) - calls)
            user == SubSeq(Registry, Len(Registry) - calls + 1, Len(Registry))
        IN  \A s \in SeqsUpTo(Range(user), MaxReg) :
                Range(s) = Range(user) =>
                    \A x \in Values :
                        /\ is_valid_chunk_type(base \o s, x)
                              = is_valid_chunk_type(Registry, x)
                        /\ is_valid_array_chunk(base \o s, x)
                              = is_valid_array_chunk(Registry, x)

\* An import that raises ImportError skips that backend only, and a
\* successful one registers its class.
ImportErrorIsolation ==
    [][(pc \in ImportPcs /\ pc' # pc /\ last'.result # "OtherError") =>
          /\ pc' = AfterImport(pc)
          /\ IF last'.result = "ok"
                THEN Registry' = Append(Registry, last'.arg)
                ELSE Registry' = Registry]_vars

====
